---- MODULE Spec2Model ----
(***************************************************************************)
(* A model of src/app.py: the /add-item ingestion handler                  *)
(* (add_item_batch), the Cosmos container it writes to, and the dashboard  *)
(* refresh callback (update_graphs) with its data preparation              *)
(* (get_time_series_data).                                                 *)
(*                                                                         *)
(* A JSON object (a Python dict) is a function from the keys it carries to *)
(* their values; a key the object lacks is outside its DOMAIN.  A cell of  *)
(* a DataFrame is <<v>> for a value and <<>> for NaN / NaT.                *)
(***************************************************************************)
EXTENDS Integers, Sequences, FiniteSets, TLC

\* ------------------------------------------------------------------ bounds
\* The longest list batch a request carries.
MaxBatch == 2

\* The most update_graphs invocations followed at one time.
MaxPasses == 2

\* ------------------------------------------------------------------ inputs
\* sensorGroups payloads: a map from group to a map from metric to value.
FullGroups(v) ==
    [test_unit     |-> [temperature |-> v, humidity |-> v + 30],
     space_nursery |-> [temperature |-> v + 1, humidity |-> v + 31, lux |-> v + 100]]

NoLuxGroups(v) ==
    [test_unit     |-> [temperature |-> v, humidity |-> v + 30],
     space_nursery |-> [temperature |-> v + 1, humidity |-> v + 31]]

\* Well-formed items: id, partitionKey and name are all present.  Two ids, two
\* partitions, two timestamps; a reading without lux, one without timestamp,
\* and one without sensorGroups that carries its metric at the top level.
WellFormedItems ==
    { [id |-> "1", partitionKey |-> "p", name |-> "a",
       timestamp |-> 5, sensorGroups |-> FullGroups(19)],
      [id |-> "1", partitionKey |-> "p", name |-> "a",
       timestamp |-> 10, sensorGroups |-> NoLuxGroups(20)],
      [id |-> "2", partitionKey |-> "p", name |-> "a",
       timestamp |-> 10, sensorGroups |-> FullGroups(20)],
      [id |-> "2", partitionKey |-> "p", name |-> "a",
       sensorGroups |-> FullGroups(21)],
      [id |-> "1", partitionKey |-> "q", name |-> "a",
       timestamp |-> 10, temperature |-> 22] }

\* Items lacking one of the three required keys.
IllFormedItems ==
    { [partitionKey |-> "p", name |-> "a",
       timestamp |-> 10, sensorGroups |-> FullGroups(20)],
      [id |-> "2", name |-> "a",
       timestamp |-> 10, sensorGroups |-> FullGroups(20)],
      [id |-> "2", partitionKey |-> "p",
       timestamp |-> 10, sensorGroups |-> FullGroups(20)] }

Items == WellFormedItems \cup IllFormedItems

RECURSIVE SeqsUpTo(_, _)
SeqsUpTo(S, n) ==
    IF n = 0 THEN { <<>> }
    ELSE LET shorter == SeqsUpTo(S, n - 1)
         IN  shorter \cup { Append(s, x) : s \in { t \in shorter : Len(t) = n - 1 }, x \in S }

\* What request.get_json() can hand the handler: a list of items, or a bare
\* object (one item not wrapped in a list).
Batches ==
    { [kind |-> "list", items |-> s] : s \in SeqsUpTo(Items, MaxBatch) }
    \cup { [kind |-> "object", items |-> <<x>>] : x \in Items }

NoBatch == [kind |-> "none", items |-> <<>>]
NoResponse == [status |-> 0]

\* ------------------------------------------------------------------ state
VARIABLES
    store,      \* the container: the stored documents, in storage order
    pc,         \* add_item_batch: "idle", "loop" or "done"
    batch,      \* add_item_batch: the parsed request body
    i,          \* add_item_batch: the position of the for loop in the batch
    calls,      \* the container.upsert_item calls of the current request
    response,   \* add_item_batch: the response returned
    fetched,    \* get_time_series_data: what the last read_all_items gave
    figures,    \* update_graphs: what the last refresh returned
    running     \* update_graphs: the invocations entered and not yet returned

vars == <<store, pc, batch, i, calls, response, fetched, figures, running>>

\* ------------------------------------------------------------- the container
RequiredKeys == {"id", "partitionKey", "name"}

MetadataColumns == {"_rid", "_self", "_etag", "_attachments", "_ts"}

\* The document the container keeps for an item: the item plus the store's
\* own bookkeeping attributes.
StoredDoc(item) ==
    item @@ [c \in MetadataColumns |-> "sys"]

\* The container is partitioned on /partitionKey: a document is identified by
\* its id within its partition.
SameDoc(doc, item) ==
    doc["id"] = item["id"] /\ doc["partitionKey"] = item["partitionKey"]

\* A write that always inserts.
UpsertAppendOnly(s, item) == Append(s, StoredDoc(item))

\* A write that only replaces (container.replace_item without the insert).
UpsertReplaceOnly(s, item) ==
    [k \in 1..Len(s) |-> IF SameDoc(s[k], item) THEN StoredDoc(item) ELSE s[k]]

\* A write that keeps the document already stored (insert if absent).
UpsertKeepFirst(s, item) ==
    IF \E k \in 1..Len(s) : SameDoc(s[k], item)
    THEN s
    ELSE Append(s, StoredDoc(item))

\* container.upsert_item(item): replace the document of the same identity,
\* or insert a new one.
UpsertItem(s, item) ==
    IF \E k \in 1..Len(s) : SameDoc(s[k], item)
    THEN [k \in 1..Len(s) |-> IF SameDoc(s[k], item) THEN StoredDoc(item) ELSE s[k]]
    ELSE Append(s, StoredDoc(item))

\* ------------------------------------------------------------ add_item_batch
\* The type check left out.
IsListAnything(b) == TRUE

\* isinstance(batch, list)
IsList(b) == b.kind = "list"

\* all(key in item for key in ["id", "partitionKey", "name"])
HasRequired(item) == \A key \in RequiredKeys : key \in DOMAIN item

MalformedBatchResponse ==
    [status |-> 400, body |-> [error |-> "Input must be a list of items."]]

MissingFieldResponse ==
    [status |-> 400,
     body |-> [error |-> "Each item must have 'id', 'partitionKey', and 'name'"]]

FailedResponse ==
    [status |-> 500, body |-> [error |-> "Failed to add batch"]]

\* f"Batch of {len(batch)} items added to Cosmos DB!"
BatchAddedResponse(n) ==
    [status |-> 200,
     body |-> [message |-> "Batch of " \o ToString(n) \o " items added to Cosmos DB!"]]

\* Lines 66-70: the body is parsed; anything but a list is answered 400.
Receive ==
    /\ pc = "idle"
    /\ \E b \in Batches :
         /\ batch' = b
         /\ IF IsList(b)
            THEN /\ pc' = "loop"
                 /\ response' = NoResponse
            ELSE /\ pc' = "done"
                 /\ response' = MalformedBatchResponse
    /\ i' = 1
    /\ calls' = <<>>
    /\ UNCHANGED <<store, fetched, figures, running>>

\* The success response returned one iteration early.
LoopEndEarly ==
    /\ pc = "loop"
    /\ i >= Len(batch.items)
    /\ response' = BatchAddedResponse(Len(batch.items))
    /\ pc' = "done"
    /\ UNCHANGED <<store, batch, i, calls, fetched, figures, running>>

\* Line 77: the loop has run through the batch.
LoopEnd ==
    /\ pc = "loop"
    /\ i > Len(batch.items)
    /\ response' = BatchAddedResponse(Len(batch.items))
    /\ pc' = "done"
    /\ UNCHANGED <<store, batch, i, calls, fetched, figures, running>>

\* The loop skipping an item that lacks a required key, instead of returning.
LoopRejectSkips ==
    /\ pc = "loop"
    /\ i <= Len(batch.items)
    /\ ~HasRequired(batch.items[i])
    /\ i' = i + 1
    /\ UNCHANGED <<store, pc, batch, calls, response, fetched, figures, running>>

\* Lines 72-74: an item lacking a required key ends the request with 400.
LoopReject ==
    /\ pc = "loop"
    /\ i <= Len(batch.items)
    /\ ~HasRequired(batch.items[i])
    /\ response' = MissingFieldResponse
    /\ pc' = "done"
    /\ UNCHANGED <<store, batch, i, calls, fetched, figures, running>>

\* Lines 75-76: the item is upserted and the loop moves on.
LoopUpsert ==
    /\ pc = "loop"
    /\ i <= Len(batch.items)
    /\ HasRequired(batch.items[i])
    /\ store' = UpsertItem(store, batch.items[i])
    /\ calls' = Append(calls, [item |-> batch.items[i], ok |-> TRUE])
    /\ i' = i + 1
    /\ UNCHANGED <<pc, batch, response, fetched, figures, running>>

\* A failed upsert noted inside the loop, which then goes on to the next item.
LoopUpsertRaisesContinues ==
    /\ pc = "loop"
    /\ i <= Len(batch.items)
    /\ HasRequired(batch.items[i])
    /\ calls' = Append(calls, [item |-> batch.items[i], ok |-> FALSE])
    /\ i' = i + 1
    /\ UNCHANGED <<store, pc, batch, response, fetched, figures, running>>

\* Lines 75, 78-80: upsert_item raises; the handler's except answers 500.
LoopUpsertRaises ==
    /\ pc = "loop"
    /\ i <= Len(batch.items)
    /\ HasRequired(batch.items[i])
    /\ calls' = Append(calls, [item |-> batch.items[i], ok |-> FALSE])
    /\ response' = FailedResponse
    /\ pc' = "done"
    /\ UNCHANGED <<store, batch, i, fetched, figures, running>>

\* The response is sent; the handler is ready for the next request.
Return ==
    /\ pc = "done"
    /\ pc' = "idle"
    /\ batch' = NoBatch
    /\ i' = 1
    /\ calls' = <<>>
    /\ response' = NoResponse
    /\ UNCHANGED <<store, fetched, figures, running>>

\* ------------------------------------------------------ get_time_series_data
\* The columns of a frame are a set of names; its rows are functions from the
\* columns to cells.
EmptyDataFrame == [columns |-> {}, rows |-> <<>>]

\* pd.DataFrame(items): one row per document, one column per key that occurs
\* in any document, NaN where a document lacks the key.
DataFrame(items) ==
    LET columns == UNION { DOMAIN items[k] : k \in 1..Len(items) }
    IN  [columns |-> columns,
         rows |-> [k \in 1..Len(items) |->
                     [c \in columns |->
                        IF c \in DOMAIN items[k] THEN <<items[k][c]>> ELSE <<>>]]]

\* df.empty
IsEmpty(df) == df.columns = {} \/ Len(df.rows) = 0

\* pd.to_datetime(cell, unit='ms'): NaN becomes NaT.
ToDatetime(cell) ==
    IF cell = <<>> THEN <<>> ELSE <<[epoch_ms |-> cell[1]]>>

\* The dotted keys json_normalize gives one sensorGroups value, each with its
\* value: "<group>.<metric>".
FlatPairs(groups) ==
    UNION { { <<g \o "." \o m, groups[g][m]>> : m \in DOMAIN groups[g] } : g \in DOMAIN groups }

\* pd.json_normalize on one cell of the sensorGroups column: a dict is
\* flattened, NaN (a document without sensorGroups) gives a row without
\* values, as pandas 1.3 and later do.
JsonNormalizeCell(cell) ==
    IF cell = <<>> THEN <<>>
    ELSE LET pairs == FlatPairs(cell[1])
         IN  [key \in { p[1] : p \in pairs } |-> (CHOOSE p \in pairs : p[1] = key)[2]]

\* Lines 113-115: the sensorGroups column is replaced by the flattened columns,
\* row by row.
FlattenSensorGroups(df) ==
    LET flat == [k \in 1..Len(df.rows) |-> JsonNormalizeCell(df.rows[k]["sensorGroups"])]
        sensorColumns == UNION { DOMAIN flat[k] : k \in 1..Len(df.rows) }
        columns == (df.columns \ {"sensorGroups"}) \cup sensorColumns
    IN  [columns |-> columns,
         rows |-> [k \in 1..Len(df.rows) |->
                     [c \in columns |->
                        IF c \in sensorColumns
                        THEN IF c \in DOMAIN flat[k] THEN <<flat[k][c]>> ELSE <<>>
                        ELSE df.rows[k][c]]]]

\* A drop that drops nothing.
DropNothing(df, dropped) == df

\* df.drop(columns=[...], errors='ignore')
DropColumns(df, dropped) ==
    [columns |-> df.columns \ dropped,
     rows |-> [k \in 1..Len(df.rows) |->
                 [c \in df.columns \ dropped |-> df.rows[k][c]]]]

\* Line 110 on a frame that has the column.
ConvertTimestamp(df) ==
    [columns |-> df.columns,
     rows |-> [k \in 1..Len(df.rows) |->
                 [c \in df.columns |->
                    IF c = "timestamp" THEN ToDatetime(df.rows[k][c]) ELSE df.rows[k][c]]]]

\* get_time_series_data(): readOk is whether container.read_all_items()
\* returned; every exception (the read, a KeyError on 'timestamp' or
\* 'sensorGroups') ends in the except clause, which returns an empty frame.
GetTimeSeriesData(readOk, items) ==
    IF ~readOk THEN EmptyDataFrame
    ELSE LET df == DataFrame(items)
         IN  IF IsEmpty(df) THEN EmptyDataFrame
             ELSE IF "timestamp" \notin df.columns THEN EmptyDataFrame
             ELSE IF "sensorGroups" \notin df.columns THEN EmptyDataFrame
             ELSE DropColumns(FlattenSensorGroups(ConvertTimestamp(df)), MetadataColumns)

\* ------------------------------------------------------------- update_graphs
\* The columns update_graphs reads (lines 153-158).
GraphColumns ==
    {"timestamp", "test_unit.temperature", "space_nursery.temperature",
     "test_unit.humidity", "space_nursery.humidity", "space_nursery.lux"}

\* A column read that leaves out the NaN cells (dropna().tolist()).
ToListDropNa(df, column) ==
    SelectSeq([k \in 1..Len(df.rows) |-> df.rows[k][column]], LAMBDA cell : cell # <<>>)

\* df[column].tolist()
ToList(df, column) ==
    [k \in 1..Len(df.rows) |-> df.rows[k][column]]

NoFigures == [kind |-> "none"]

\* return {}, {}, {}
EmptyFigures == [kind |-> "empty"]

\* df[column] on a column the frame lacks raises KeyError; update_graphs does
\* not catch it, and the callback returns no figures.
CallbackError == [kind |-> "error"]

\* Lines 148-180: the three figures, each with the data handed to px.line.
UpdateGraphs(df) ==
    IF IsEmpty(df) THEN EmptyFigures
    ELSE IF ~(GraphColumns \subseteq df.columns) THEN CallbackError
    ELSE LET timestamps == ToList(df, "timestamp")
         IN  [kind |-> "figures",
              temp_fig  |-> [x |-> timestamps,
                             y |-> << ToList(df, "test_unit.temperature"),
                                      ToList(df, "space_nursery.temperature") >>],
              humid_fig |-> [x |-> timestamps,
                             y |-> << ToList(df, "test_unit.humidity"),
                                      ToList(df, "space_nursery.humidity") >>],
              lux_fig   |-> [x |-> timestamps,
                             y |-> << ToList(df, "space_nursery.lux") >>]]

\* A refresh that stops the schedule once a read has failed.
TickStopsAfterFailure ==
    /\ fetched.ok \/ figures.kind = "none"
    /\ \E readOk \in BOOLEAN :
         /\ fetched' = [ok |-> readOk, items |-> IF readOk THEN store ELSE <<>>]
         /\ figures' = UpdateGraphs(GetTimeSeriesData(readOk, store))
    /\ UNCHANGED <<store, pc, batch, i, calls, response, running>>

\* One firing of the dcc.Interval: update_graphs runs on what the container
\* returns now.
Tick ==
    /\ \E readOk \in BOOLEAN :
         /\ fetched' = [ok |-> readOk, items |-> IF readOk THEN store ELSE <<>>]
         /\ figures' = UpdateGraphs(GetTimeSeriesData(readOk, store))
    /\ UNCHANGED <<store, pc, batch, i, calls, response, running>>

\* Lines 134, 137-142, 184: the interval's request reaches the server and
\* update_graphs is invoked on a thread of its own.  Nothing in the callback or
\* around it looks whether an earlier invocation has returned.
TickBegin ==
    /\ running < MaxPasses
    /\ running' = running + 1
    /\ UNCHANGED <<store, pc, batch, i, calls, response, fetched, figures>>

\* Lines 145-180: an invocation under way reads the container, builds the
\* figures and returns.
TickEnd ==
    /\ running > 0
    /\ \E readOk \in BOOLEAN :
         /\ fetched' = [ok |-> readOk, items |-> IF readOk THEN store ELSE <<>>]
         /\ figures' = UpdateGraphs(GetTimeSeriesData(readOk, store))
    /\ running' = running - 1
    /\ UNCHANGED <<store, pc, batch, i, calls, response>>

Init ==
    /\ store = <<>>
    /\ pc = "idle"
    /\ batch = NoBatch
    /\ i = 1
    /\ calls = <<>>
    /\ response = NoResponse
    /\ fetched = [ok |-> FALSE, items |-> <<>>]
    /\ figures = NoFigures
    /\ running = 0

\* The ingestion route alone.
NextIngest ==
    \/ Receive
    \/ LoopEnd
    \/ LoopReject
    \/ LoopUpsert
    \/ LoopUpsertRaises
    \/ Return

\* The ingestion route and the dashboard refresh, interleaved: a refresh may
\* read the container between two upserts of one request.
Next ==
    \/ NextIngest
    \/ Tick

Spec == Init /\ [][Next]_vars

\* Tick writes none of store, pc, batch, i, calls, response: what is stated of
\* these alone is checked on the ingestion route without the refresh.
SpecIngest == Init /\ [][NextIngest]_vars

\* The ingestion route and the refresh as an invocation that takes time: the
\* instants where update_graphs is entered and where it returns are two steps.
NextPasses ==
    \/ NextIngest
    \/ TickBegin
    \/ TickEnd

SpecPasses == Init /\ [][NextPasses]_vars

\* ===================================================================== claims
\* Helpers of the statements below.
Done == pc = "done"

ListDone == pc = "done" /\ batch.kind = "list"

WellFormed(item) == {"id", "partitionKey", "name"} \subseteq DOMAIN item

AllWellFormed == \A k \in 1..Len(batch.items) : WellFormed(batch.items[k])

AllCallsOk == \A k \in 1..Len(calls) : calls[k].ok

\* A document without the store's bookkeeping attributes.
Content(doc) == [c \in DOMAIN doc \ {"_rid", "_self", "_etag", "_attachments", "_ts"} |-> doc[c]]

Contents(s) == [k \in 1..Len(s) |-> Content(s[k])]

Holds(s, item) ==
    \E k \in 1..Len(s) :
        s[k]["id"] = item["id"] /\ s[k]["partitionKey"] = item["partitionKey"]

\* C1: a request whose body is not a list is answered with the 400
\* "Input must be a list of items." error, and no upsert_item call is made
\* during it.
C1_MalformedBatchRejected ==
    (Done /\ batch.kind = "object") =>
        /\ response.status = 400
        /\ response.body = [error |-> "Input must be a list of items."]
        /\ calls = <<>>

C1_Witness ==
    /\ Done
    /\ batch.kind = "object"
    /\ WellFormed(batch.items[1])
    /\ response.status = 400

\* C2: a list of N well-formed items whose upserts all succeed is answered
\* 200 "Batch of N items added", and the store then holds a record for every
\* id of the batch.
C2_AllAccepted ==
    (ListDone /\ AllWellFormed /\ AllCallsOk) =>
        /\ response.status = 200
        /\ response.body =
             [message |-> "Batch of " \o ToString(Len(batch.items)) \o " items added to Cosmos DB!"]
        /\ Len(calls) = Len(batch.items)
        /\ \A k \in 1..Len(batch.items) :
             \E j \in 1..Len(store) : store[j]["id"] = batch.items[k]["id"]

C2_Witness ==
    /\ ListDone
    /\ Len(batch.items) = 2
    /\ AllWellFormed
    /\ AllCallsOk
    /\ batch.items[1]["id"] # batch.items[2]["id"]
    /\ response.status = 200

\* C3 (as claimed): when an item of a list lacks a required key and no upsert
\* raised, every well-formed item of the batch, before or after it, is in the
\* store when the request ends.
C3_SiblingsUnaffected ==
    (ListDone /\ ~AllWellFormed /\ AllCallsOk) =>
        \A k \in 1..Len(batch.items) :
            WellFormed(batch.items[k]) => Holds(store, batch.items[k])

UpsertedNow ==
    IF Len(calls') = Len(calls) + 1 /\ calls'[Len(calls')].ok
    THEN <<calls'[Len(calls')].item>> ELSE <<>>

C6_ContinuesAfterFailure ==
    (ListDone /\ AllWellFormed) => Len(calls) = Len(batch.items)

\* The accepted count a response states, as <<n>>, or <<>> when it states
\* none: only the 200 message carries a number.
ReportedCount(r) ==
    IF r.status = 200
    THEN << CHOOSE n \in 0..(MaxBatch + 1) :
              r.body = [message |-> "Batch of " \o ToString(n) \o " items added to Cosmos DB!"] >>
    ELSE <<>>

\* C7 (as claimed): a request that ends with an item rejected or an upsert
\* failed reports the count of the items actually accepted.
C7_ErrorsItemized ==
    (ListDone /\ response.status # 200) =>
        ReportedCount(response) =
            << Cardinality({ k \in 1..Len(calls) : calls[k].ok }) >>

\* The epoch values of a timestamp axis are non-decreasing (NaT aside).
NonDecreasing(x) ==
    \A j, k \in 1..Len(x) :
        (j < k /\ x[j] # <<>> /\ x[k] # <<>>) => x[j][1].epoch_ms <= x[k][1].epoch_ms

\* C8 (as claimed): the timestamps of every series of the figures a refresh
\* returns are non-decreasing.
C8_TimestampsNonDecreasing ==
    figures.kind = "figures" =>
        /\ NonDecreasing(figures.temp_fig.x)
        /\ NonDecreasing(figures.humid_fig.x)
        /\ NonDecreasing(figures.lux_fig.x)

\* C9: in the figures of one refresh, all five series have the length of the
\* timestamp axis, one point per fetched document, and the three figures
\* share the same timestamp axis.
C9_Aligned ==
    figures.kind = "figures" =>
        /\ figures.temp_fig.x = figures.humid_fig.x
        /\ figures.temp_fig.x = figures.lux_fig.x
        /\ Len(figures.temp_fig.x) = Len(fetched.items)
        /\ \A f \in {figures.temp_fig, figures.humid_fig, figures.lux_fig} :
             \A k \in 1..Len(f.y) : Len(f.y[k]) = Len(f.x)

C9_Witness ==
    /\ figures.kind = "figures"
    /\ Len(figures.lux_fig.x) = 2
    /\ figures.lux_fig.y[1][1] # <<>>
    /\ figures.lux_fig.y[1][2] = <<>>

\* C10 (as claimed): when the read succeeds and returns documents none of
\* which carries space_nursery.lux, the refresh does not fail.
C10_AbsentMetricEmptySeries ==
    ( /\ fetched.ok
      /\ fetched.items # <<>>
      /\ \A k \in 1..Len(fetched.items) :
           /\ "sensorGroups" \in DOMAIN fetched.items[k]
           /\ "lux" \notin DOMAIN fetched.items[k]["sensorGroups"]["space_nursery"] )
    => /\ figures.kind = "figures"
       /\ figures.lux_fig.y[1] = <<>>

\* C11: a refresh whose read raised returns the empty figures; the interval
\* can always fire again; and a refresh right after a failed one, whose read
\* succeeds on documents that carry every plotted value, returns figures with
\* one point per document.
C11_FailureDoesNotStopTicks ==
    /\ []((~fetched.ok /\ figures.kind # "none") => figures.kind = "empty")
    /\ [](ENABLED Tick)
    /\ [][ ( /\ ~fetched.ok
             /\ figures.kind = "empty"
             /\ fetched'.ok
             /\ fetched'.items # <<>>
             /\ \A k \in 1..Len(fetched'.items) :
                  /\ {"timestamp", "sensorGroups"} \subseteq DOMAIN fetched'.items[k]
                  /\ "lux" \in DOMAIN fetched'.items[k]["sensorGroups"]["space_nursery"] )
           => /\ figures'.kind = "figures"
              /\ Len(figures'.lux_fig.x) = Len(store)
              /\ \A k \in 1..Len(store) : figures'.lux_fig.y[1][k] # <<>> ]_vars

\* A failed refresh has reported the empty figures while the container holds
\* complete documents: the next successful refresh is the populated one.
C11_Witness ==
    /\ ~fetched.ok
    /\ figures.kind = "empty"
    /\ Len(store) = 2
    /\ \A k \in 1..Len(store) :
         /\ {"timestamp", "sensorGroups"} \subseteq DOMAIN store[k]
         /\ "lux" \in DOMAIN store[k]["sensorGroups"]["space_nursery"]

\* C12 (as claimed): a fetched document without timestamp is left out of the
\* series: the figures have one point per fetched document that carries a
\* timestamp.
C12_NoTimestampExcluded ==
    figures.kind = "figures" =>
        Len(figures.temp_fig.x) =
            Cardinality({ k \in 1..Len(fetched.items) : "timestamp" \in DOMAIN fetched.items[k] })

\* The frame get_time_series_data returned in the last refresh.
LastFrame == GetTimeSeriesData(fetched.ok, fetched.items)

\* C13 (as claimed): a fetched document without sensorGroups keeps its row,
\* and its own top-level fields are columns of the frame with their values
\* unchanged.
C13_TopLevelFieldsKept ==
    fetched.ok =>
        \A k \in 1..Len(fetched.items) :
            "sensorGroups" \notin DOMAIN fetched.items[k] =>
                /\ Len(LastFrame.rows) = Len(fetched.items)
                /\ \A c \in DOMAIN fetched.items[k]
                          \ {"timestamp", "_rid", "_self", "_etag", "_attachments", "_ts"} :
                      /\ c \in LastFrame.columns
                      /\ LastFrame.rows[k][c] = <<fetched.items[k][c]>>

\* C14: no column of the frame get_time_series_data returns is one of the
\* store's bookkeeping attributes, which every fetched document carries.
C14_NoBookkeepingColumns ==
    LastFrame.columns \cap {"_rid", "_self", "_etag", "_attachments", "_ts"} = {}

C14_Witness ==
    /\ fetched.ok
    /\ Len(fetched.items) = 2
    /\ \A k \in 1..2 : {"_rid", "_self", "_etag", "_attachments", "_ts"} \subseteq DOMAIN fetched.items[k]
    /\ figures.kind = "figures"
    /\ "id" \in LastFrame.columns

\* C15 (as claimed): no upsert_item call is made in a request before every
\* item of its batch has been checked: a batch with an item lacking a required
\* key never gets a call.
C15_ValidationBeforeWrites ==
    (batch.kind = "list" /\ calls # <<>>) => AllWellFormed

\* The last position of the batch whose item was upserted under this id.
LastWithId(id) ==
    CHOOSE k \in 1..Len(calls) :
        /\ calls[k].item["id"] = id
        /\ \A l \in (k + 1)..Len(calls) : calls[l].item["id"] # id

C17_FailureAborts ==
    /\ []((ListDone /\ ~AllCallsOk) =>
            /\ response.status = 500
            /\ response.body = [error |-> "Failed to add batch"]
            /\ Len(calls) = i
            /\ ~calls[Len(calls)].ok
            /\ \A k \in 1..(Len(calls) - 1) : calls[k].ok
            /\ \A k \in 1..Len(calls) : calls[k].item = batch.items[k])
    /\ [][ ( \/ (Len(calls') = Len(calls) + 1 /\ ~calls'[Len(calls')].ok)
             \/ pc = "done" )
           => store' = store ]_vars

C17_Witness ==
    /\ ListDone
    /\ Len(batch.items) = 2
    /\ Len(calls) = 1
    /\ ~calls[1].ok
    /\ response.status = 500
    /\ store # <<>>

\* The number of upsert_item calls of the request that returned.
Accepted == Cardinality({ k \in 1..Len(calls) : calls[k].ok })

\* C19: the upserted items of a request are a prefix of its batch, in order;
\* the prefix ends right before the first item that lacks a required key or
\* whose upsert raised; the response is the 200 one exactly when the prefix is
\* the whole batch; and the store changes only by the upsert of the item the
\* loop stands at.
C19_PrefixUpserted ==
    /\ [](batch.kind = "list" =>
            /\ \A k \in 1..Accepted : calls[k].ok /\ calls[k].item = batch.items[k]
            /\ Len(calls) <= Accepted + 1
            /\ \A k \in 1..Accepted : WellFormed(batch.items[k])
            /\ pc = "done" =>
                  /\ (response.status = 200) = (Accepted = Len(batch.items))
                  /\ Accepted < Len(batch.items) =>
                        \/ /\ ~WellFormed(batch.items[Accepted + 1])
                           /\ Len(calls) = Accepted
                           /\ response.status = 400
                        \/ /\ WellFormed(batch.items[Accepted + 1])
                           /\ Len(calls) = Accepted + 1
                           /\ ~calls[Accepted + 1].ok
                           /\ response.status = 500)
    /\ [][ store' # store =>
            /\ pc = "loop"
            /\ calls' = Append(calls, [item |-> batch.items[i], ok |-> TRUE])
            /\ \E d \in 1..Len(store') : Content(store'[d]) = batch.items[i] ]_vars

C19_Witness ==
    /\ ListDone
    /\ Len(batch.items) = 2
    /\ WellFormed(batch.items[1])
    /\ "partitionKey" \notin DOMAIN batch.items[2]
    /\ Accepted = 1
    /\ Len(calls) = 1
    /\ Len(store) = 1
    /\ response.status = 400

\* C18 (as claimed): at no time is more than one invocation of update_graphs
\* under way.
C18_OnePassInFlight ==
    running <= 1

====
